---- MODULE Spec2Model ----
(***************************************************************************)
(* Model of forCoze/src/app2.py: the evaluation dispatcher                 *)
(* (evaluate_project / evaluate_with_coze), the client resolver            *)
(* (get_coze_client), the mock evaluator (evaluate_mock) and the Markdown  *)
(* extraction routine (extract_markdown_text).                             *)
(*                                                                         *)
(* A Python str is a sequence of characters; a character is a TLA+ string. *)
(* Text that is only ever copied (the literal pieces of the mock template, *)
(* the banner, exception messages, object reprs) is carried as one         *)
(* character-like token per literal piece.  TLA+ strings are ASCII, so the *)
(* Chinese literals of the source are transliterated.                      *)
(***************************************************************************)
EXTENDS Integers, Sequences, FiniteSets, TLC

VARIABLES
    COZEPY_AVAILABLE,  \* module flag set by the import at lines 7-12
    environ,           \* process configuration read by os.getenv
    pc,                \* position of the single request in flight
    request,           \* the five arguments of the call in progress
    coze,              \* the local coze of evaluate_with_coze (line 62)
    output_text,       \* the accumulator of lines 85-97
    result,            \* what evaluate_project returned (a str value)
    escaped,           \* the exception that left evaluate_project, if any
    consumed,          \* history: the events the for loop has taken so far
    streamCalls,       \* history: invocations of workflows.runs.stream in this call
    extractCalls,      \* history: invocations of extract_markdown_text in this call
    extractArg,        \* history: the argument of the last extraction
    path,              \* history: "none", "mock" or "remote" for this call
    failure,           \* history: the exception caught at line 103, if any
    envAtCall,         \* history: the configuration when this call started
    lastClient,        \* history: "client" if the previous call had built a client
    payload,           \* ExtractSpec: the argument given to extract_markdown_text
    extracted          \* ExtractSpec: what extract_markdown_text produced

vars == <<COZEPY_AVAILABLE, environ, pc, request, coze, output_text, result, escaped,
          consumed, streamCalls, extractCalls, extractArg, path, failure,
          envAtCall, lastClient, payload, extracted>>

(***************************************************************************)
(* Bounds                                                                  *)
(***************************************************************************)
MaxEvents == 3

(***************************************************************************)
(* Python values and outcomes                                              *)
(***************************************************************************)
StrV(s) == [t |-> "str", s |-> s]
IntV(n) == [t |-> "int", n |-> n]
NoneV == [t |-> "none"]
DictV(items) == [t |-> "dict", items |-> items]
\* An instance of some class: whether it has a data attribute and its value,
\* what `'data' in obj` and obj['data'] do, and what str(obj) gives.
ObjV(has, attr, cont, item, repr) ==
    [t |-> "obj", hasattr_data |-> has, data |-> attr, contains |-> cont,
     getitem |-> item, str |-> repr]

Ret(v) == [ok |-> TRUE, v |-> v]
Raise(e) == [ok |-> FALSE, e |-> e]

NL == <<"\n">>
DATA == <<"d", "a", "t", "a">>

RECURSIVE Digits(_)
Digits(n) ==
    LET d == <<"0", "1", "2", "3", "4", "5", "6", "7", "8", "9">>
    IN  IF n < 10 THEN <<d[n + 1]>> ELSE Digits(n \div 10) \o <<d[(n % 10) + 1]>>

RECURSIVE Escaped(_, _)
Escaped(s, quote) ==
    IF s = <<>> THEN <<>>
    ELSE LET c == Head(s)
             e == IF c = "\n" THEN <<"\\", "n">>
                  ELSE IF c = "\\" THEN <<"\\", "\\">>
                  ELSE IF c = quote THEN <<"\\", c>>
                  ELSE <<c>>
         IN  e \o Escaped(Tail(s), quote)

HasChar(s, c) == \E i \in 1..Len(s) : s[i] = c

\* repr of a str: single quotes unless the text has a ' and no "
StrRepr(s) ==
    LET quote == IF HasChar(s, "'") /\ ~HasChar(s, "\"") THEN "\"" ELSE "'"
    IN  <<quote>> \o Escaped(s, quote) \o <<quote>>

RECURSIVE PyStr(_)
RECURSIVE PyRepr(_)
RECURSIVE ItemsRepr(_)
ItemsRepr(items) ==
    IF items = <<>> THEN <<>>
    ELSE StrRepr(Head(items).k) \o <<":", " ">> \o PyRepr(Head(items).v)
         \o (IF Len(items) > 1 THEN <<",", " ">> ELSE <<>>)
         \o ItemsRepr(Tail(items))

PyRepr(v) == IF v.t = "str" THEN StrRepr(v.s) ELSE PyStr(v)

PyStr(v) ==
    CASE v.t = "str" -> v.s
      [] v.t = "int" -> Digits(v.n)
      [] v.t = "none" -> <<"N", "o", "n", "e">>
      [] v.t = "dict" -> <<"{">> \o ItemsRepr(v.items) \o <<"}">>
      [] v.t = "obj" -> v.str

TypeName(v) ==
    CASE v.t = "str" -> "str"
      [] v.t = "int" -> "int"
      [] v.t = "none" -> "NoneType"
      [] v.t = "dict" -> "dict"
      [] v.t = "obj" -> "object"

\* isinstance(v, str)
IsStr(v) == v.t = "str"

\* hasattr(v, 'data'): str, int, None and dict have no such attribute
HasAttrData(v) == v.t = "obj" /\ v.hasattr_data

HasKey(items, k) == \E i \in 1..Len(items) : items[i].k = k
Lookup(items, k) == items[CHOOSE i \in 1..Len(items) : items[i].k = k].v

IsSubstring(sub, s) ==
    \E i \in 0..(Len(s) - Len(sub)) : SubSeq(s, i + 1, i + Len(sub)) = sub

\* 'data' in v
ContainsData(v) ==
    CASE v.t = "str" -> Ret(IsSubstring(DATA, v.s))
      [] v.t = "dict" -> Ret(HasKey(v.items, DATA))
      [] v.t = "obj" -> IF v.contains = "raise" THEN Raise(<<"TypeError: not iterable">>)
                        ELSE Ret(v.contains = "yes")
      [] OTHER -> Raise(<<"TypeError: argument of type '", TypeName(v), "' is not iterable">>)

\* v['data']
GetItemData(v) ==
    CASE v.t = "str" -> Raise(<<"TypeError: string indices must be integers">>)
      [] v.t = "dict" -> IF HasKey(v.items, DATA) THEN Ret(Lookup(v.items, DATA))
                         ELSE Raise(<<"KeyError: 'data'">>)
      [] v.t = "obj" -> v.getitem
      [] OTHER -> Raise(<<"TypeError: '", TypeName(v), "' object is not subscriptable">>)

(***************************************************************************)
(* json.loads (line 37) on the JSON grammar the payloads below use:        *)
(* whitespace, strings without escapes, non-negative integers, null and    *)
(* objects.  No payload of the model holds an array, a boolean, a          *)
(* fraction, an exponent, a sign or a backslash.                           *)
(***************************************************************************)
Ws == {" ", "\t", "\n", "\r"}
DigitChars == {"0", "1", "2", "3", "4", "5", "6", "7", "8", "9"}
DigitVal(c) == CHOOSE n \in 0..9 : Digits(n) = <<c>>

Fail == [ok |-> FALSE]
Parsed(v, next) == [ok |-> TRUE, v |-> v, next |-> next]

RECURSIVE SkipWs(_, _)
SkipWs(s, i) == IF i <= Len(s) /\ s[i] \in Ws THEN SkipWs(s, i + 1) ELSE i

\* the scanner after an opening quote; strict mode rejects control characters
RECURSIVE ScanString(_, _, _)
ScanString(s, i, acc) ==
    IF i > Len(s) THEN Fail
    ELSE IF s[i] = "\"" THEN Parsed(StrV(acc), i + 1)
    ELSE IF s[i] \in {"\n", "\t", "\r", "\\"} THEN Fail
    ELSE ScanString(s, i + 1, Append(acc, s[i]))

RECURSIVE ScanDigits(_, _, _)
ScanDigits(s, i, n) ==
    IF i <= Len(s) /\ s[i] \in DigitChars
    THEN ScanDigits(s, i + 1, n * 10 + DigitVal(s[i]))
    ELSE Parsed(IntV(n), i)

\* (0|[1-9]\d*)
ScanNumber(s, i) ==
    IF s[i] = "0" THEN Parsed(IntV(0), i + 1) ELSE ScanDigits(s, i + 1, DigitVal(s[i]))

\* d[k] = v on an insertion-ordered dict
DictSet(items, k, v) ==
    IF HasKey(items, k)
    THEN [i \in 1..Len(items) |-> IF items[i].k = k THEN [k |-> k, v |-> v] ELSE items[i]]
    ELSE Append(items, [k |-> k, v |-> v])

RECURSIVE ScanOnce(_, _)
RECURSIVE ScanObject(_, _)
RECURSIVE ScanMembers(_, _, _)
ScanOnce(s, i) ==
    IF i > Len(s) THEN Fail
    ELSE CASE s[i] = "\"" -> ScanString(s, i + 1, <<>>)
           [] s[i] = "{" -> ScanObject(s, i + 1)
           [] s[i] = "n" /\ i + 3 <= Len(s) /\ SubSeq(s, i, i + 3) = <<"n", "u", "l", "l">>
                -> Parsed(NoneV, i + 4)
           [] s[i] \in DigitChars -> ScanNumber(s, i)
           [] OTHER -> Fail

ScanObject(s, i) ==
    LET j == SkipWs(s, i)
    IN  IF j > Len(s) THEN Fail
        ELSE IF s[j] = "}" THEN Parsed(DictV(<<>>), j + 1)
        ELSE IF s[j] # "\"" THEN Fail
        ELSE ScanMembers(s, j + 1, <<>>)

ScanMembers(s, i, items) ==
    LET key == ScanString(s, i, <<>>)
    IN  IF ~key.ok THEN Fail
        ELSE LET c == SkipWs(s, key.next)
             IN  IF c > Len(s) \/ s[c] # ":" THEN Fail
                 ELSE LET val == ScanOnce(s, SkipWs(s, c + 1))
                      IN  IF ~val.ok THEN Fail
                          ELSE LET e == SkipWs(s, val.next)
                                   items2 == DictSet(items, key.v.s, val.v)
                               IN  IF e > Len(s) THEN Fail
                                   ELSE IF s[e] = "}" THEN Parsed(DictV(items2), e + 1)
                                   ELSE IF s[e] # "," THEN Fail
                                   ELSE LET q == SkipWs(s, e + 1)
                                        IN  IF q > Len(s) \/ s[q] # "\"" THEN Fail
                                            ELSE ScanMembers(s, q + 1, items2)

json_loads(s) ==
    LET r == ScanOnce(s, SkipWs(s, 1))
    IN  IF ~r.ok THEN Raise(<<"JSONDecodeError: Expecting value">>)
        ELSE IF SkipWs(s, r.next) # Len(s) + 1 THEN Raise(<<"JSONDecodeError: Extra data">>)
        ELSE Ret(r.v)

(***************************************************************************)
(* extract_markdown_text (lines 32-57)                                     *)
(***************************************************************************)
\* lines 36-39: a str is parsed, anything else is taken as it is
ParseResponse(response) ==
    IF IsStr(response) THEN json_loads(response.s) ELSE Ret(response)

\* lines 50-53: a str data is returned verbatim, anything else stringified
DataText(data) == StrV(IF IsStr(data) THEN data.s ELSE PyStr(data))

\* lines 42-53, with the attribute and the key tested the other way round
FindDataKeyFirst(response_data) ==
    LET c == ContainsData(response_data)
    IN  IF c.ok /\ c.v
        THEN LET g == GetItemData(response_data)
             IN  IF ~g.ok THEN g ELSE Ret(DataText(g.v))
        ELSE IF HasAttrData(response_data) THEN Ret(DataText(response_data.data))
        ELSE IF ~c.ok THEN c
        ELSE Ret(StrV(PyStr(response_data)))

\* lines 42-53: the data attribute first, then the data key, else str()
FindData(response_data) ==
    IF HasAttrData(response_data) THEN Ret(DataText(response_data.data))
    ELSE LET c == ContainsData(response_data)
         IN  IF ~c.ok THEN c
             ELSE IF c.v
             THEN LET g == GetItemData(response_data)
                  IN  IF ~g.ok THEN g ELSE Ret(DataText(g.v))
             ELSE Ret(StrV(PyStr(response_data)))

\* lines 35-53: the body of the try block
ExtractTry(response) ==
    LET parsed == ParseResponse(response)
    IN  IF ~parsed.ok THEN parsed ELSE FindData(parsed.v)

\* lines 34-57 without the except clause
extract_markdown_text_uncaught(response) == ExtractTry(response)

\* lines 32-57
extract_markdown_text(response) ==
    LET r == ExtractTry(response)
    IN  IF r.ok THEN r ELSE Ret(StrV(PyStr(response)))

(***************************************************************************)
(* evaluate_mock (lines 107-149)                                           *)
(***************************************************************************)
RECURSIVE Join(_, _)
Join(sep, strs) ==
    IF strs = <<>> THEN <<>>
    ELSE IF Len(strs) = 1 THEN Head(strs)
    ELSE Head(strs) \o sep \o Join(sep, Tail(strs))

\* the f-string of lines 109-149; each literal piece is one token
evaluate_mock(r) ==
    <<"\n# Project evaluation report (mock data)\n\n## Project\n- **Name**: ">>
    \o r.project_name
    \o <<"\n- **Field**: ">> \o r.project_field
    \o <<"\n- **Level**: ">> \o r.student_level
    \o <<"\n- **Materials**: ">> \o Join(<<",", " ">>, r.submission_materials)
    \o <<"\n\n## Description\n">> \o r.project_description
    \o <<"\n\n## Mock scores\n- 8.2/10 ... ## Learning\n... master **">>
    \o r.project_field
    \o <<"** basics ...\n\n---\n\n*Note: this is a mock evaluation*\n">>

Requests ==
    { [project_name |-> <<"X">>,
       project_description |-> <<"d", "e", "m", "o">>,
       project_field |-> <<"technology">>,
       student_level |-> <<"undergraduate">>,
       submission_materials |-> << <<"code">>, <<"docs">> >>],
      [project_name |-> <<>>,
       project_description |-> <<"a", "\n", "{", "\"", "d", "a", "t", "a", "\"", ":", "1", "}">>,
       project_field |-> <<"research">>,
       student_level |-> <<"graduate">>,
       submission_materials |-> <<>>] }

NoRequest == [project_name |-> <<>>, project_description |-> <<>>,
              project_field |-> <<>>, student_level |-> <<>>,
              submission_materials |-> <<>>]

(***************************************************************************)
(* Process configuration and get_coze_client (lines 19-29)                 *)
(***************************************************************************)
\* what os.getenv can give: None, the empty string, a value
EnvValues == {NoneV, StrV(<<>>), StrV(<<"v">>)}
Environs == [COZE_API_TOKEN : EnvValues, WORKFLOW_ID : EnvValues]

\* Python truth of a value: None and "" are false
Truthy(v) ==
    CASE v.t = "none" -> FALSE
      [] v.t = "str" -> v.s # <<>>
      [] v.t = "int" -> v.n # 0
      [] v.t = "dict" -> v.items # <<>>
      [] v.t = "obj" -> TRUE
      [] OTHER -> FALSE

\* os.getenv(name), lines 24 and 63
os_getenv(name) == environ[name]

CozeClient ==
    ObjV(FALSE, NoneV, "raise", Raise(<<"TypeError: not subscriptable">>), <<"<cozepy.Coze object>">>)

\* Coze(auth=TokenAuth(token=...), base_url=...) of line 29 returns or raises
CtorOutcomes == {Ret(CozeClient), Raise(<<"ValueError: bad client configuration">>)}

\* get_coze_client that keeps the client of the previous call
get_coze_client_cached(ctor) ==
    IF lastClient = "client" THEN Ret(CozeClient)
    ELSE IF ~COZEPY_AVAILABLE THEN Ret(NoneV)
    ELSE IF ~Truthy(os_getenv("COZE_API_TOKEN")) THEN Ret(NoneV)
    ELSE ctor

\* lines 19-29; ctor is what the constructor call of line 29 does if reached
get_coze_client(ctor) ==
    IF ~COZEPY_AVAILABLE THEN Ret(NoneV)
    ELSE IF ~Truthy(os_getenv("COZE_API_TOKEN")) THEN Ret(NoneV)
    ELSE ctor

(***************************************************************************)
(* Stream events and their aggregation (lines 85-97)                       *)
(***************************************************************************)
Absent == [t |-> "absent"]
Message(content) == [t |-> "message", content |-> content]
Event(message, content, output) ==
    [message |-> message, content |-> content, output |-> output]

HasAttr(x) == x.t # "absent"

\* the events the remote workflow may emit
Events ==
    { Event(Absent, StrV(<<"a">>), Absent),
      Event(Absent, StrV(<<"b">>), Absent),
      Event(Absent, StrV(<<"c">>), Absent),
      Event(Message(StrV(<<"m">>)), StrV(<<"a">>), IntV(5)),
      Event(Message(Absent), StrV(<<"b">>), StrV(<<"o">>)),
      Event(Message(Absent), Absent, IntV(12)),
      Event(Absent, Absent, NoneV),
      Event(Absent, Absent, Absent),
      Event(Absent, NoneV, StrV(<<"o">>)),
      Event(Message(IntV(5)), StrV(<<"a">>), Absent),
      Event(Message(StrV(<<"m">>)), NoneV, Absent),
      Event(Absent, StrV(<<"{", "\"", "d", "a", "t", "a", "\"", ":", "\"", "r", "\"", "}">>), Absent) }

\* str(e) of what the stream call, or iterating the stream, may raise: a
\* transport error, and a validation error of a malformed event (two lines)
StreamErrors ==
    { <<"ConnectionError: reset">>,
      <<"1 validation error for WorkflowEvent", "\n", "  data: invalid">> }

\* x + "\n" (lines 93 and 95)
AddNewline(x) ==
    IF IsStr(x) THEN Ret(x.s \o NL)
    ELSE Raise(<<"unsupported operand type(s) for +: '", TypeName(x), "' and 'str'">>)

\* lines 92-97 with every field stringified
EventTextStringified(event) ==
    IF HasAttr(event.message) /\ HasAttr(event.message.content)
    THEN Ret(PyStr(event.message.content) \o NL)
    ELSE IF HasAttr(event.content) THEN Ret(PyStr(event.content) \o NL)
    ELSE IF HasAttr(event.output) THEN Ret(PyStr(event.output) \o NL)
    ELSE Ret(<<>>)

\* lines 92-97 with content probed before message.content
EventTextContentFirst(event) ==
    IF HasAttr(event.content) THEN AddNewline(event.content)
    ELSE IF HasAttr(event.message) /\ HasAttr(event.message.content)
    THEN AddNewline(event.message.content)
    ELSE IF HasAttr(event.output) THEN Ret(PyStr(event.output) \o NL)
    ELSE Ret(<<>>)

\* lines 92-97: what one event adds to output_text, or the exception
EventText(event) ==
    IF HasAttr(event.message) /\ HasAttr(event.message.content)
    THEN AddNewline(event.message.content)
    ELSE IF HasAttr(event.content) THEN AddNewline(event.content)
    ELSE IF HasAttr(event.output) THEN Ret(PyStr(event.output) \o NL)
    ELSE Ret(<<>>)

\* the object workflows.runs.stream returned (line 79)
StreamResponse ==
    ObjV(FALSE, NoneV, "no", Raise(<<"TypeError: not subscriptable">>), <<"<cozepy.Stream object>">>)

\* line 100 always passing the accumulated text
ExtractArgTextOnly(text, response) == StrV(text)

\* line 100: output_text if output_text else response
ExtractArg(text, response) == IF text # <<>> THEN StrV(text) ELSE response

\* line 104 keeping what had been accumulated
BannerWithText(e, mock) ==
    <<"[X] Coze workflow error: ">> \o e \o <<"\n", "\n">> \o output_text \o mock

\* the f-string of line 104
Banner(e, mock) == <<"[X] Coze workflow error: ">> \o e \o <<"\n", "\n">> \o mock

(***************************************************************************)
(* evaluate_project / evaluate_with_coze (lines 60-104, 152-154)           *)
(***************************************************************************)
Unset == [t |-> "unset"]
NoError == <<>>

ExtractVars == <<payload, extracted>>
CallHistory == <<consumed, streamCalls, extractCalls, extractArg>>

\* the except clause of lines 103-104
Handle(e) ==
    /\ result' = StrV(Banner(e, evaluate_mock(request)))
    /\ failure' = e
    /\ pc' = "done"

Init ==
    /\ COZEPY_AVAILABLE \in BOOLEAN
    /\ environ \in Environs
    /\ pc = "idle"
    /\ request = NoRequest
    /\ coze = Unset
    /\ output_text = <<>>
    /\ result = Unset
    /\ escaped = NoError
    /\ consumed = <<>>
    /\ streamCalls = 0
    /\ extractCalls = 0
    /\ extractArg = Unset
    /\ path = "none"
    /\ failure = NoError
    /\ envAtCall = Unset
    /\ lastClient = "none"
    /\ payload = Unset
    /\ extracted = Unset

\* the configuration changes between two requests
SetEnv ==
    /\ pc = "idle"
    /\ \E e \in Environs : e # environ /\ environ' = e
    /\ UNCHANGED <<COZEPY_AVAILABLE, pc, request, coze, output_text, result, escaped,
                   path, failure, envAtCall, lastClient>>
    /\ UNCHANGED CallHistory
    /\ UNCHANGED ExtractVars

\* the presentation layer calls evaluate_project (lines 152-154, 253-257)
Call ==
    /\ pc = "idle"
    /\ \E r \in Requests : request' = r
    /\ pc' = "resolve"
    /\ envAtCall' = environ
    /\ UNCHANGED <<COZEPY_AVAILABLE, environ, coze, output_text, result, escaped,
                   path, failure, lastClient>>
    /\ UNCHANGED CallHistory
    /\ UNCHANGED ExtractVars

\* lines 62-66: resolve the client and the workflow id, branch to the mock
Resolve ==
    /\ pc = "resolve"
    /\ \E ctor \in CtorOutcomes :
        LET client == get_coze_client(ctor)
            workflow_id == os_getenv("WORKFLOW_ID")
        IN  IF ~client.ok
            THEN /\ pc' = "raised"
                 /\ escaped' = client.e
                 /\ UNCHANGED <<coze, result, path>>
            ELSE /\ escaped' = escaped
                 /\ coze' = client.v
                 /\ IF ~Truthy(client.v) \/ ~Truthy(workflow_id)
                    THEN /\ result' = StrV(evaluate_mock(request))
                         /\ path' = "mock"
                         /\ pc' = "done"
                    ELSE /\ path' = "remote"
                         /\ pc' = "try"
                         /\ result' = result
    /\ UNCHANGED <<COZEPY_AVAILABLE, environ, request, output_text, failure,
                   envAtCall, lastClient>>
    /\ UNCHANGED CallHistory
    /\ UNCHANGED ExtractVars

\* lines 70-85: build the parameters and call workflows.runs.stream
StreamCall ==
    /\ pc = "try"
    /\ streamCalls' = streamCalls + 1
    /\ \/ /\ pc' = "loop"
          /\ output_text' = <<>>
          /\ UNCHANGED <<result, failure>>
       \/ /\ \E e \in StreamErrors : Handle(e)
          /\ UNCHANGED output_text
    /\ UNCHANGED <<COZEPY_AVAILABLE, environ, request, coze, escaped, consumed,
                   extractCalls, extractArg, path, envAtCall, lastClient>>
    /\ UNCHANGED ExtractVars

\* lines 86-97: one round of the for loop that gets an event
NextEvent ==
    /\ pc = "loop"
    /\ Len(consumed) < MaxEvents
    /\ \E event \in Events :
        LET text == EventText(event)
        IN  /\ consumed' = Append(consumed, event)
            /\ IF text.ok
               THEN /\ output_text' = output_text \o text.v
                    /\ UNCHANGED <<pc, result, failure>>
               ELSE /\ Handle(text.e)
                    /\ UNCHANGED output_text
    /\ UNCHANGED <<COZEPY_AVAILABLE, environ, request, coze, escaped, streamCalls,
                   extractCalls, extractArg, path, envAtCall, lastClient>>
    /\ UNCHANGED ExtractVars

\* line 86: the iterator raises instead of giving an event
StreamFails ==
    /\ pc = "loop"
    /\ \E e \in StreamErrors : Handle(e)
    /\ UNCHANGED <<COZEPY_AVAILABLE, environ, request, coze, output_text, escaped,
                   path, envAtCall, lastClient>>
    /\ UNCHANGED CallHistory
    /\ UNCHANGED ExtractVars

\* line 86 exhausted, then lines 100-101: extract and return
StreamEnds ==
    /\ pc = "loop"
    /\ LET arg == ExtractArg(output_text, StreamResponse)
           markdown_text == extract_markdown_text(arg)
       IN  /\ extractArg' = arg
           /\ extractCalls' = extractCalls + 1
           /\ IF markdown_text.ok
              THEN /\ result' = markdown_text.v
                   /\ pc' = "done"
                   /\ UNCHANGED failure
              ELSE Handle(markdown_text.e)
    /\ UNCHANGED <<COZEPY_AVAILABLE, environ, request, coze, output_text, escaped,
                   consumed, streamCalls, path, envAtCall, lastClient>>
    /\ UNCHANGED ExtractVars

\* the call is over (returned or raised); the next request starts afresh
Return ==
    /\ pc \in {"done", "raised"}
    /\ pc' = "idle"
    /\ request' = NoRequest
    /\ output_text' = <<>>
    /\ result' = Unset
    /\ escaped' = NoError
    /\ consumed' = <<>>
    /\ streamCalls' = 0
    /\ extractCalls' = 0
    /\ extractArg' = Unset
    /\ path' = "none"
    /\ failure' = NoError
    /\ envAtCall' = Unset
    /\ coze' = Unset
    /\ lastClient' = IF coze # Unset /\ Truthy(coze) THEN "client" ELSE "none"
    /\ UNCHANGED <<COZEPY_AVAILABLE, environ>>
    /\ UNCHANGED ExtractVars

Next ==
    \/ SetEnv
    \/ Call
    \/ Resolve
    \/ StreamCall
    \/ NextEvent
    \/ StreamFails
    \/ StreamEnds
    \/ Return

Spec == Init /\ [][Next]_vars

(***************************************************************************)
(* extract_markdown_text on its own: the payloads it is given              *)
(***************************************************************************)
HELLO == <<"h", "e", "l", "l", "o">>
Quote(s) == <<"\"">> \o s \o <<"\"">>
JsonObject(k, vtext) == <<"{">> \o Quote(k) \o <<":">> \o vtext \o <<"}">>

\* texts a JSON string literal can hold as they are
JsonXs ==
    { <<"X">>, <<"a", "b">>, <<>>, HELLO, DATA, <<"i", "t", "'", "s">>,
      <<"1", "2">>, <<"{", "}">>, <<"#", " ", "T">> }

Xs == JsonXs \cup { <<"a", "\n", "b">>, <<"\"">>, JsonObject(DATA, Quote(<<"X">>)) }

TextPayloads ==
    { JsonObject(DATA, Quote(x)) : x \in JsonXs }
    \cup { <<" ">> \o JsonObject(DATA, Quote(x)) \o NL : x \in {<<"X">>, HELLO} }
    \cup { JsonObject(<<"a">>, Quote(x)) : x \in {<<"b">>, DATA} }
    \cup { JsonObject(DATA, v) :
             v \in { <<"1", "2">>, <<"0">>, <<"n", "u", "l", "l">>, <<"{", "}">>,
                     JsonObject(<<"a">>, Quote(<<"b">>)), <<"0", "1">>, <<"x">> } }
    \cup { <<"{">> \o Quote(<<"a">>) \o <<":", "1", ",">> \o Quote(DATA) \o <<":">>
               \o Quote(<<"c">>) \o <<"}">>,
           <<"{">> \o Quote(DATA) \o <<":">> \o Quote(<<"a">>) \o <<",">> \o Quote(DATA)
               \o <<":">> \o Quote(<<"b">>) \o <<"}">>,
           <<"{">> \o Quote(DATA) \o <<":">> \o Quote(<<"a">>) \o <<",", "}">>,
           <<"{">> \o Quote(DATA),
           JsonObject(DATA, Quote(<<"a">>)) \o <<"x">>,
           <<"{", "}">>, <<"{", " ", "}">>, <<"n", "u", "l", "l">>, <<"n", "o">>,
           <<"a", "\n", "b", "\n">>, <<"\n">> }
    \cup { Quote(x) : x \in {HELLO, DATA, <<>>} }
    \cup Xs

Payloads ==
    { StrV(s) : s \in TextPayloads }
    \cup { DictV(<< [k |-> DATA, v |-> StrV(x)] >>) : x \in Xs }
    \cup { DictV(<< [k |-> <<"a">>, v |-> IntV(1)], [k |-> DATA, v |-> StrV(x)] >>) :
             x \in {<<"X">>, <<>>} }
    \cup { DictV(<< [k |-> DATA, v |-> v] >>) :
             v \in {IntV(12), NoneV, DictV(<<>>),
                    DictV(<< [k |-> <<"a">>, v |-> StrV(<<"i", "t", "'", "s">>)],
                             [k |-> <<"b">>, v |-> StrV(<<"a", "\n">>)] >>)} }
    \cup { DictV(<<>>), DictV(<< [k |-> <<"a">>, v |-> StrV(<<"b">>)] >>), NoneV, IntV(7),
           StreamResponse }
    \cup { ObjV(TRUE, attr, cont, item, <<"<obj>">>) :
             attr \in {StrV(<<"X">>), StrV(<<>>), IntV(5)},
             cont \in {"yes", "no", "raise"},
             item \in {Ret(StrV(<<"k">>)), Raise(<<"KeyError: 'data'">>)} }
    \cup { ObjV(FALSE, NoneV, cont, item, <<"<obj>">>) :
             cont \in {"yes", "no", "raise"},
             item \in {Ret(StrV(<<"k">>)), Ret(IntV(5)), Raise(<<"KeyError: 'data'">>)} }

ExtractInit ==
    /\ COZEPY_AVAILABLE = FALSE
    /\ environ = [COZE_API_TOKEN |-> NoneV, WORKFLOW_ID |-> NoneV]
    /\ pc = "idle"
    /\ request = NoRequest
    /\ coze = Unset
    /\ output_text = <<>>
    /\ result = Unset
    /\ escaped = NoError
    /\ consumed = <<>>
    /\ streamCalls = 0
    /\ extractCalls = 0
    /\ extractArg = Unset
    /\ path = "none"
    /\ failure = NoError
    /\ envAtCall = Unset
    /\ lastClient = "none"
    /\ payload \in Payloads
    /\ extracted = Unset

MainVars == <<COZEPY_AVAILABLE, environ, pc, request, coze, output_text, result, escaped,
              consumed, streamCalls, extractCalls, extractArg, path, failure,
              envAtCall, lastClient>>

\* one call of extract_markdown_text(payload)
Extract ==
    /\ extracted = Unset
    /\ extracted' = extract_markdown_text(payload)
    /\ UNCHANGED payload
    /\ UNCHANGED MainVars

\* the next call gets another payload
NextPayload ==
    /\ extracted # Unset
    /\ \E p \in Payloads : payload' = p
    /\ extracted' = Unset
    /\ UNCHANGED MainVars

ExtractNext ==
    \/ Extract
    \/ NextPayload

ExtractSpec == ExtractInit /\ [][ExtractNext]_vars

(***************************************************************************)
(* Properties                                                              *)
(***************************************************************************)
\* a configuration value that is present and non-empty
Present(v) == v # NoneV /\ v # StrV(<<>>)

\* the token or the workflow id is absent or empty, or the library is missing
ConfigMissing(env) ==
    \/ ~COZEPY_AVAILABLE
    \/ ~Present(env.COZE_API_TOKEN)
    \/ ~Present(env.WORKFLOW_ID)

CallOver == pc \in {"done", "raised"}

\* the report the mock evaluator gives for the request in progress, as a value
MockReport == StrV(evaluate_mock(request))

\* the banner line for the caught failure, then a blank line, then the mock report
BannerReport ==
    StrV(<<"[X] Coze workflow error: ">> \o failure \o <<"\n", "\n">>
         \o evaluate_mock(request))

\* C1: evaluate_project never fails: whatever the environment does, no
\* exception leaves the call.
C1_NeverFails == pc # "raised" /\ escaped = NoError

\* C2: with the token or the workflow id absent or empty, or the library
\* unavailable, the call returns exactly the mock report and never invokes
\* the remote stream.
C2_DegradedMode ==
    (CallOver /\ ConfigMissing(envAtCall))
        => (pc = "done" /\ result = MockReport /\ failure = NoError /\ streamCalls = 0)

\* the place of the first newline of a text
FirstNewline(s) ==
    CHOOSE k \in 1..Len(s) : s[k] = "\n" /\ \A j \in 1..(k - 1) : s[j] # "\n"

\* C3 as stated: when the remote call raises, at the stream invocation or
\* while the stream is consumed, the result starts with a banner of one line
\* naming the failure and the rest of it is the mock report for the same
\* request: after the banner's line come a blank line and the mock report.
C3_OneLineBanner ==
    (pc = "done" /\ failure # NoError)
        => /\ result.s[1] = "[X] Coze workflow error: "
           /\ \E k \in 1..Len(result.s) : result.s[k] = "\n"
           /\ SubSeq(result.s, FirstNewline(result.s), Len(result.s))
                  = <<"\n", "\n">> \o evaluate_mock(request)

\* C3 amended: when the remote call raises, the result is the banner prefix,
\* the text of the exception as it is (one line only if that text is), a
\* blank line and the mock report for the same request, and nothing else:
\* no text accumulated before the failure.
C3_BannerOnFailure ==
    (pc = "done" /\ failure # NoError)
        => /\ result = BannerReport
           /\ path = "remote"
           /\ streamCalls = 1

C3_Witness ==
    /\ pc = "done"
    /\ failure = <<"1 validation error for WorkflowEvent", "\n", "  data: invalid">>
    /\ Len(consumed) = 2
    /\ output_text = <<"a", "\n", "b", "\n">>
    /\ result = BannerReport

\* the text of a str value
TextOf(v) == IF v.t = "str" THEN v.s ELSE <<"<not a str>">>

\* the entry of one event as the claim words it
ClaimedEntry(event) ==
    IF event.message.t = "message" /\ event.message.content.t # "absent"
    THEN TextOf(event.message.content) \o <<"\n">>
    ELSE IF event.content.t # "absent" THEN TextOf(event.content) \o <<"\n">>
    ELSE IF event.output.t # "absent" THEN PyStr(event.output) \o <<"\n">>
    ELSE <<>>

RECURSIVE ClaimedAggregate(_)
ClaimedAggregate(events) ==
    IF events = <<>> THEN <<>>
    ELSE ClaimedEntry(Head(events)) \o ClaimedAggregate(Tail(events))

Drained == pc = "done" /\ path = "remote" /\ failure = NoError

\* C4: while the stream is read and once it is drained, the accumulator is
\* the concatenation, in emission order, of one entry per event taken:
\* message.content + newline, else content + newline, else str(output) +
\* newline, else nothing.
C4_Aggregation ==
    (pc = "loop" \/ Drained) => output_text = ClaimedAggregate(consumed)

C4_Witness ==
    /\ Drained
    /\ consumed = << Event(Absent, StrV(<<"a">>), Absent),
                     Event(Absent, StrV(<<"b">>), Absent),
                     Event(Absent, StrV(<<"c">>), Absent) >>
    /\ output_text = <<"a", "\n", "b", "\n", "c", "\n">>

\* the data field of a payload, as the claim describes payloads: a data
\* attribute, else a data key, or the JSON text of a mapping {"data": X}
ClaimedData(p) ==
    CASE p.t = "obj" /\ p.hasattr_data -> p.data
      [] p.t = "obj" /\ ~p.hasattr_data /\ p.contains = "yes" /\ p.getitem.ok -> p.getitem.v
      [] p.t = "dict" /\ (\E i \in 1..Len(p.items) : p.items[i].k = DATA)
            -> p.items[CHOOSE i \in 1..Len(p.items) : p.items[i].k = DATA].v
      [] p.t = "str" /\ (\E x \in JsonXs : p.s = JsonObject(DATA, Quote(x)))
            -> StrV(CHOOSE x \in JsonXs : p.s = JsonObject(DATA, Quote(x)))
      [] OTHER -> Unset

\* C5: extraction of a payload whose data field is the string X returns X
\* exactly; with both a data attribute and a data key the attribute is used.
C5_RoundTrip ==
    (extracted # Unset /\ ClaimedData(payload).t = "str")
        => extracted = Ret(ClaimedData(payload))

C5_Witness ==
    /\ extracted = Ret(StrV(<<"X">>))
    /\ payload.t = "obj"
    /\ payload.hasattr_data
    /\ payload.contains = "yes"
    /\ payload.getitem = Ret(StrV(<<"k">>))

\* parsing the payload, or looking its data field up, raises
LookupFails(p) ==
    LET parsed == ParseResponse(p)
    IN  \/ ~parsed.ok
        \/ /\ ~HasAttrData(parsed.v)
           /\ \/ ~ContainsData(parsed.v).ok
              \/ ContainsData(parsed.v).v /\ ~GetItemData(parsed.v).ok

\* C6: extraction never raises and returns a str; when parsing or the lookup
\* fails the result is str() of the original payload.
C6_NeverRaises ==
    extracted # Unset
        => /\ extracted.ok
           /\ extracted.v.t = "str"
           /\ LookupFails(payload) => extracted.v.s = PyStr(payload)

C6_Witness ==
    /\ payload = StrV(HELLO)
    /\ LookupFails(payload)
    /\ extracted = Ret(StrV(HELLO))

C8_StreamExactlyOnce ==
    /\ streamCalls <= 1
    /\ CallOver => streamCalls = IF ConfigMissing(envAtCall) THEN 0 ELSE 1

\* the result a finished call must have, from the request, the path its
\* configuration selects and what the remote service did in this call
ExpectedResult ==
    IF ConfigMissing(envAtCall) THEN MockReport
    ELSE IF failure # NoError THEN BannerReport
    ELSE extract_markdown_text(
             IF ClaimedAggregate(consumed) # <<>> THEN StrV(ClaimedAggregate(consumed))
             ELSE StreamResponse).v

\* C9: whatever requests came before and however the configuration changed
\* between them, a call goes remote exactly when the configuration read at
\* that call is complete, and its result is a function of its own request,
\* that configuration and the remote behaviour of that call.
C9_Stateless ==
    /\ pc \in {"try", "loop", "done"}
        => /\ path = IF ConfigMissing(envAtCall) THEN "mock" ELSE "remote"
           /\ Truthy(coze) <=> (COZEPY_AVAILABLE /\ Present(envAtCall.COZE_API_TOKEN))
    /\ pc = "done" => result = ExpectedResult

C9_Witness ==
    /\ pc = "done"
    /\ lastClient = "client"
    /\ envAtCall.COZE_API_TOKEN = NoneV
    /\ Present(envAtCall.WORKFLOW_ID)
    /\ path = "mock"
    /\ result = MockReport

\* the event carries a message.content or a content that is not a str
CarriesNonStr(event) ==
    \/ /\ event.message.t = "message"
       /\ event.message.content.t \notin {"absent", "str"}
    \/ event.content.t \notin {"absent", "str"}

\* the field the probing order selects is message.content or content, and is not a str
SelectsNonStr(event) ==
    IF event.message.t = "message" /\ event.message.content.t # "absent"
    THEN event.message.content.t # "str"
    ELSE event.content.t \notin {"absent", "str"}

\* C10 as stated: an event carrying a non-str message.content or content
\* ends the request with the banner and the mock report.
C10_AnyNonStrFails ==
    (pc = "done" /\ \E i \in 1..Len(consumed) : CarriesNonStr(consumed[i]))
        => (failure # NoError /\ result = BannerReport)

\* C10 amended: when the field the probing order selects (message.content if
\* present, else content) is not a str, the append fails at that event: no
\* later event is taken, nothing is extracted, the accumulated text is
\* dropped and the result is the banner followed by the mock report.
C10_SelectedNonStrFails ==
    \A i \in 1..Len(consumed) :
        SelectsNonStr(consumed[i])
            => /\ i = Len(consumed)
               /\ pc = "done"
               /\ failure # NoError
               /\ extractCalls = 0
               /\ result = BannerReport

C10_Witness ==
    /\ pc = "done"
    /\ Len(consumed) = 2
    /\ output_text = <<"m", "\n">>
    /\ consumed[2] = Event(Absent, NoneV, StrV(<<"o">>))
    /\ failure = <<"unsupported operand type(s) for +: '", "NoneType", "' and 'str'">>
    /\ result = BannerReport

====
